---- MODULE Spec2Model ----
(***************************************************************************)
(* dftimewolf/lib/collectors.py: the artifact collectors (local path, GRR  *)
(* host flow, GRR hunt) and CollectArtifactsHelper, which starts one       *)
(* collector thread per host and per local path, runs the hunt collector   *)
(* inline, joins the collectors it kept and merges their (path, label).    *)
(***************************************************************************)
EXTENDS Naturals, Integers, Sequences, FiniteSets, TLC

(* ---------------------------------------------------------------- bounds *)
\* longest host_list / path_list handed to CollectArtifactsHelper
MaxHosts == 1
MaxPaths == 1
\* longest path_list of a run that is given local paths only
MaxLocalPaths == 2
\* how many times.sleep() calls one run makes in all: how often the remote
\* service answers "access denied" to a re-attempted probe or "still running"
\* to a flow status read
MaxSleeps == 2
MaxFetches == 2

(* ------------------------------------------------------ program constants *)
CHECK_APPROVAL_INTERVAL_SEC == 10
CHECK_FLOW_INTERVAL_SEC == 10

DEFAULT_ARTIFACTS_LINUX ==
  <<"LinuxAuditLogs", "LinuxAuthLogs", "LinuxCronLogs", "LinuxWtmp",
    "AllUsersShellHistory", "ZeitgeistDatabase">>
DEFAULT_ARTIFACTS_DARWIN ==
  <<"OSXAppleSystemLogs", "OSXAuditLogs", "OSXBashHistory",
    "OSXInstallationHistory", "OSXInstallationLog", "OSXInstallationTime",
    "OSXLaunchAgents", "OSXLaunchDaemons", "OSXMiscLogs", "OSXRecentItems",
    "OSXSystemLogs", "OSXUserApplicationLogs", "OSXQuarantineEvents">>
DEFAULT_ARTIFACTS_WINDOWS ==
  <<"AppCompatCache", "EventLogs", "TerminalServicesEventLogEvtx",
    "PrefetchFiles", "SuperFetchFiles", "WindowsSearchDatabase",
    "ScheduledTasks", "WindowsSystemRegistryFiles",
    "WindowsUserRegistryFiles">>

(* ------------------------------------------------- strings as char tuples *)
\* A Python string is a tuple of one-character strings; None is its own value.
None == <<"<None>">>

\* bool(x) of a Python string or list: empty (and None) is false
Truthy(x) == x # <<>> /\ x # None

\* s.lower() on the characters the model uses
LowerChar(c) ==
  CASE c = "A" -> "a" [] c = "B" -> "b" [] c = "C" -> "c" [] c = "D" -> "d"
    [] c = "E" -> "e" [] c = "F" -> "f" [] c = "W" -> "w" [] c = "Z" -> "z"
    [] OTHER -> c

Lower(s) == [n \in 1..Len(s) |-> LowerChar(s[n])]

\* sub in s
Contains(sub, s) ==
  \E off \in 0..Len(s) :
    /\ off + Len(sub) <= Len(s)
    /\ \A n \in 1..Len(sub) : s[off + n] = sub[n]

\* s.rstrip(u'/')
RECURSIVE RStripSlash(_)
RStripSlash(s) ==
  IF s # <<>> /\ s[Len(s)] = "/" THEN RStripSlash(SubSeq(s, 1, Len(s) - 1))
  ELSE s

\* os.path.basename(p): what follows the last '/'
RECURSIVE Basename(_)
Basename(p) ==
  IF p = <<>> THEN <<>>
  ELSE IF p[Len(p)] = "/" THEN <<>>
  ELSE Basename(SubSeq(p, 1, Len(p) - 1)) \o <<p[Len(p)]>>

StartsWith(s, prefix) ==
  Len(prefix) <= Len(s) /\ SubSeq(s, 1, Len(prefix)) = prefix

\* os.path.join(a, b) for a relative b and a non-empty a without trailing '/'
PathJoin(a, b) == a \o <<"/">> \o b

(* ------------------------------------------------------- the remote fleet *)
HexDigits == {"0", "1", "2", "3", "4", "5", "6", "7", "8", "9",
              "a", "b", "c", "d", "e", "f"}

Zeros15 == [n \in 1..15 |-> "0"]
ClientId1 == <<"C", ".">> \o Zeros15 \o <<"1">>
ClientId2 == <<"C", ".">> \o Zeros15 \o <<"2">>
ClientId3 == <<"C", ".">> \o Zeros15 \o <<"3">>
ClientId4 == <<"C", ".">> \o Zeros15 \o <<"4">>

\* what the GRR server knows: client_id, data.os_info.fqdn, data.last_seen_at,
\* data.os_info.system
Client1 ==
  [client_id |-> ClientId1, fqdn |-> <<"w", "e", "b", "1">>,
   last_seen_at |-> 5, system |-> "Linux"]
Client2 ==
  [client_id |-> ClientId2, fqdn |-> <<"W", "E", "B", "2">>,
   last_seen_at |-> 9, system |-> "Plan9"]
Client3 ==
  [client_id |-> ClientId3, fqdn |-> <<"d", "b">>,
   last_seen_at |-> 7, system |-> "Windows"]
Client4 ==
  [client_id |-> ClientId4, fqdn |-> <<"w", "e", "b", "4">>,
   last_seen_at |-> 9, system |-> "Darwin"]
Fleet == {Client1, Client2, Client3, Client4}

\* grr_api.Client(client_id).Get().data.os_info.fqdn
Fqdn(client_id) == (CHOOSE c \in Fleet : c.client_id = client_id).fqdn

\* grr_api.Client(client_id).Get().data.os_info.system
SystemType(client_id) == (CHOOSE c \in Fleet : c.client_id = client_id).system

\* lists grr_api.SearchClients(host) may return: none, only a client the filter
\* rejects, one match, several, two sharing the newest last_seen_at, a repeat
SearchAnswers ==
  << <<>>, <<Client3>>, <<Client1>>, <<Client1, Client3, Client2>>,
     <<Client2, Client4>>, <<Client1, Client4, Client3, Client2>>,
     <<Client1, Client1>> >>

\* the answers, by position in SearchAnswers, a run of CollectArtifactsHelper
\* may get
SearchResults == {2, 4}

(* --------------------------------------- GrrArtifactCollector._GetClientId *)
\* faulty variant: the pattern without re.IGNORECASE
IsClientId_CaseSensitive(host) ==
  /\ Len(host) = 18
  /\ host[1] = "c"
  /\ host[2] = "."
  /\ \A n \in 3..18 : host[n] \in HexDigits

\* re.compile(r'^c\.[0-9a-f]{16}$', re.IGNORECASE).match(host); '$' also
\* matches just before one trailing newline
IsClientId(host) ==
  LET core == IF host # <<>> /\ host[Len(host)] = "\n"
              THEN SubSeq(host, 1, Len(host) - 1) ELSE host
  IN /\ Len(core) = 18
     /\ LowerChar(core[1]) = "c"
     /\ core[2] = "."
     /\ \A n \in 3..18 : LowerChar(core[n]) \in HexDigits

\* the dict `result`: client_id -> last_seen_at of the clients whose fqdn
\* contains the host, a later entry of the same client_id overwriting
SearchFilter(host, search_result) ==
  LET hits == {n \in 1..Len(search_result) :
                 Contains(Lower(host), Lower(search_result[n].fqdn))}
      last(cid) == CHOOSE n \in hits :
                     /\ search_result[n].client_id = cid
                     /\ \A m \in hits : search_result[m].client_id = cid => m <= n
  IN [cid \in {search_result[n].client_id : n \in hits} |->
        search_result[last(cid)].last_seen_at]

\* faulty variant: sorted without reverse=True, the longest unseen client first
GetClientId_Oldest(host, search_result) ==
  IF IsClientId(host) THEN {host}
  ELSE LET result == SearchFilter(host, search_result)
       IN {cid \in DOMAIN result :
             \A other \in DOMAIN result : result[cid] <= result[other]}

\* the client ids sorted(result, key=result.get, reverse=True)[0] can be: a key
\* of maximal last_seen_at (among equal ones the dict's iteration order picks).
\* The empty set stands for the RuntimeError raised when nothing matched.
GetClientId(host, search_result) ==
  IF IsClientId(host) THEN {host}
  ELSE LET result == SearchFilter(host, search_result)
       IN {cid \in DOMAIN result :
             \A other \in DOMAIN result : result[other] <= result[cid]}

\* the answers of grr_api.SearchClients(host) the call got, each by its position
\* in SearchAnswers: none for a host the pattern accepts
SearchLog(host, answer) ==
  IF IsClientId(host) THEN <<>> ELSE <<answer>>

(* ----------------------------------------------------------------- inputs *)
HostWeb == <<"w", "e", "b">>
\* host strings a caller passes: a search term and a canonical client id
HostChoices == {HostWeb, ClientId1}

\* local paths a caller passes
PathChoices ==
  { <<>>, <<"/">>, <<"a">>, <<"a", "/">>, <<"a", "/", "/">>,
    <<"/", "a", "/", "b">>, <<"/", "a", "/", "b", "/">>, <<"b">> }
FewPaths == { <<"/", "a", "/", "b", "/">> }

HuntId == <<"H", "1">>
ApproverChoices == {None, <<"b", "o", "b">>}
ArtifactChoices == {None, <<"A", ",", "B">>}
ProbeOutcomes == {"ok", "forbidden", "error"}
FlowStates == {"RUNNING", "TERMINATED", "ERROR"}
DownloadOutcomes == {"ok", "error"}
\* the same, and an archive that arrives but cannot be opened
RetrieveOutcomes == DownloadOutcomes \cup {"bad_zip"}

\* all lists over S of length at most n
SeqsUpTo(S, n) == UNION {[1..m -> S] : m \in 0..n}

\* tempfile.mkdtemp(): a fresh directory per collector
Digit == <<"1", "2", "3", "4", "5", "6", "7", "8", "9">>
TmpDir(n) == <<"/", "t", "m", "p", "/", Digit[n]>>
HuntTmpDir == <<"/", "t", "m", "p", "/", "h">>

VARIABLES
  host_list, hunt_id, path_list, artifact_list, approvers,  \* the arguments
  pc,                   \* where CollectArtifactsHelper is
  idx,                  \* position of its current for loop
  raised,               \* the exception that left CollectArtifactsHelper
  artifact_collectors,  \* the list of collectors it keeps
  collected_artifacts,  \* the dict it returns the items of
  grr,                  \* GrrArtifactCollector per host_list position
  fs,                   \* FilesystemCollector per path_list position
  hunt                  \* the GrrHuntCollector

vars == <<host_list, hunt_id, path_list, artifact_list, approvers, pc, idx,
          raised, artifact_collectors, collected_artifacts, grr, fs, hunt>>
args == <<host_list, hunt_id, path_list, artifact_list, approvers>>

\* a Python dict is a function; d.update(e)
EmptyDict == [k \in {} |-> None]
DictUpdate(d, e) ==
  [k \in DOMAIN d \cup DOMAIN e |-> IF k \in DOMAIN e THEN e[k] ELSE d[k]]

\* a collector object not constructed yet
NoGrr ==
  [pc |-> "new", err |-> "none", client_id |-> None, client |-> None,
   output_path |-> None, searches |-> 0, search_results |-> <<>>,
   probes |-> 0, denied |-> 0, errors |-> 0, approvals |-> 0,
   flows |-> 0, reads |-> 0, state |-> "none", detail |-> None, fetches |-> 0,
   zip |-> FALSE, unpacked |-> FALSE, downloaded |-> None,
   sleeps |-> 0, slept |-> 0]
NoFs == [pc |-> "new", output_path |-> None, cname |-> None]
NoHunt ==
  [pc |-> "new", err |-> "none", output_path |-> None, probes |-> 0,
   denied |-> 0, errors |-> 0, approvals |-> 0, fetches |-> 0, zip |-> FALSE,
   sleeps |-> 0, slept |-> 0]

\* faulty variant: the `if hunt_id:` block placed before the path loop
AfterLoop_HuntBeforePaths(phase, hosts, paths, hunt_arg) ==
  IF phase = "start" /\ hosts # <<>> THEN "hosts"
  ELSE IF phase \in {"start", "hosts"} /\ Truthy(hunt_arg) THEN "hunt"
  ELSE IF phase \in {"start", "hosts"} /\ paths # <<>> THEN "paths"
  ELSE "join"

\* the loop CollectArtifactsHelper enters after the loop `phase` ran out
AfterLoop(phase, hosts, paths, hunt_arg) ==
  IF phase = "start" /\ hosts # <<>> THEN "hosts"
  ELSE IF phase \in {"start", "hosts"} /\ paths # <<>> THEN "paths"
  ELSE IF phase \in {"start", "hosts", "paths"} /\ Truthy(hunt_arg) THEN "hunt"
  ELSE "join"

InitWith(hosts, paths, hunts) ==
  /\ host_list \in hosts
  /\ path_list \in paths
  /\ hunt_id \in hunts
  /\ artifact_list \in ArtifactChoices
  /\ approvers \in ApproverChoices
  /\ pc = AfterLoop("start", host_list, path_list, hunt_id)
  /\ idx = 1
  /\ raised = "none"
  /\ artifact_collectors = <<>>
  /\ collected_artifacts = EmptyDict
  /\ grr = [n \in 1..Len(host_list) |-> NoGrr]
  /\ fs = [n \in 1..Len(path_list) |-> NoFs]
  /\ hunt = NoHunt

Init ==
  InitWith(SeqsUpTo(HostChoices, MaxHosts), SeqsUpTo(FewPaths, MaxPaths),
           {None, HuntId})

(* -------------------------------------------- GrrArtifactCollector (thread) *)
\* s.split(sep) for a one-character sep, as in artifacts.split(u',')
RECURSIVE Split(_, _)
Split(s, sep) ==
  IF \A n \in 1..Len(s) : s[n] # sep THEN <<s>>
  ELSE LET cut == CHOOSE n \in 1..Len(s) :
                    s[n] = sep /\ \A m \in 1..(n - 1) : s[m] # sep
       IN <<SubSeq(s, 1, cut - 1)>> \o Split(SubSeq(s, cut + 1, Len(s)), sep)

\* artifact_registry.get(system_type, None)
ArtifactRegistry(system_type) ==
  CASE system_type = "Linux" -> DEFAULT_ARTIFACTS_LINUX
    [] system_type = "Darwin" -> DEFAULT_ARTIFACTS_DARWIN
    [] system_type = "Windows" -> DEFAULT_ARTIFACTS_WINDOWS
    [] OTHER -> None

\* __init__: mkdtemp, then _GetClientId(host); the thread is started right after
GrrInit(n, host, client_id) ==
  [NoGrr EXCEPT !.pc = "probe", !.output_path = TmpDir(n),
                !.client_id = client_id,
                !.searches = IF IsClientId(host) THEN 0 ELSE 1]

\* faulty variant: the approval is requested whether or not approvers were given
GetClientFirstProbe_NoApproverCheck(c, outcome, approver_arg) ==
  LET p == [c EXCEPT !.probes = @ + 1] IN
  IF outcome = "ok"
  THEN [p EXCEPT !.client = Fqdn(c.client_id), !.pc = "schedule"]
  ELSE IF outcome = "forbidden"
  THEN [p EXCEPT !.denied = @ + 1, !.approvals = @ + 1, !.pc = "wait"]
  ELSE [p EXCEPT !.errors = @ + 1, !.pc = "failed", !.err = "ProbeError"]

\* faulty variant: the wait loop is missing, the client is returned right
\* after CreateApproval
GetClientFirstProbe_NoWait(c, outcome, approver_arg) ==
  LET p == [c EXCEPT !.probes = @ + 1] IN
  IF outcome = "ok"
  THEN [p EXCEPT !.client = Fqdn(c.client_id), !.pc = "schedule"]
  ELSE IF outcome = "forbidden"
  THEN IF ~Truthy(approver_arg)
       THEN [p EXCEPT !.denied = @ + 1, !.pc = "failed", !.err = "ApprovalError"]
       ELSE [p EXCEPT !.denied = @ + 1, !.approvals = @ + 1,
                      !.client = Fqdn(c.client_id), !.pc = "schedule"]
  ELSE [p EXCEPT !.errors = @ + 1, !.pc = "failed", !.err = "ProbeError"]

\* _GetClient up to the wait loop: the first client.ListFlows() and what
\* follows from its outcome
GetClientFirstProbe(c, outcome, approver_arg) ==
  LET p == [c EXCEPT !.probes = @ + 1] IN
  IF outcome = "ok"
  THEN [p EXCEPT !.client = Fqdn(c.client_id), !.pc = "schedule"]
  ELSE IF outcome = "forbidden"
  THEN IF ~Truthy(approver_arg)
       THEN [p EXCEPT !.denied = @ + 1, !.pc = "failed", !.err = "ApprovalError"]
       ELSE [p EXCEPT !.denied = @ + 1, !.approvals = @ + 1, !.pc = "wait"]
  ELSE [p EXCEPT !.errors = @ + 1, !.pc = "failed", !.err = "ProbeError"]

\* faulty variant: CreateApproval moved into the wait loop
GetClientReprobe_RequestAgain(c, outcome) ==
  LET p == [c EXCEPT !.probes = @ + 1] IN
  IF outcome = "ok"
  THEN [p EXCEPT !.client = Fqdn(c.client_id), !.pc = "schedule"]
  ELSE IF outcome = "forbidden"
  THEN [p EXCEPT !.denied = @ + 1, !.approvals = @ + 1, !.sleeps = @ + 1,
                 !.slept = @ + CHECK_APPROVAL_INTERVAL_SEC]
  ELSE [p EXCEPT !.errors = @ + 1, !.pc = "failed", !.err = "ProbeError"]

\* faulty variant: `except Exception` in the wait loop, any failure is slept on
GetClientReprobe_CatchAll(c, outcome) ==
  LET p == [c EXCEPT !.probes = @ + 1] IN
  IF outcome = "ok"
  THEN [p EXCEPT !.client = Fqdn(c.client_id), !.pc = "schedule"]
  ELSE IF outcome = "forbidden"
  THEN [p EXCEPT !.denied = @ + 1, !.sleeps = @ + 1,
                 !.slept = @ + CHECK_APPROVAL_INTERVAL_SEC]
  ELSE [p EXCEPT !.errors = @ + 1, !.sleeps = @ + 1,
                 !.slept = @ + CHECK_APPROVAL_INTERVAL_SEC]

\* one round of the `while True` of _GetClient
GetClientReprobe(c, outcome) ==
  LET p == [c EXCEPT !.probes = @ + 1] IN
  IF outcome = "ok"
  THEN [p EXCEPT !.client = Fqdn(c.client_id), !.pc = "schedule"]
  ELSE IF outcome = "forbidden"
  THEN [p EXCEPT !.denied = @ + 1, !.sleeps = @ + 1,
                 !.slept = @ + CHECK_APPROVAL_INTERVAL_SEC]
  ELSE [p EXCEPT !.errors = @ + 1, !.pc = "failed", !.err = "ProbeError"]

\* faulty variant: the approval is requested once more before the flow is created
ScheduleFlow_RequestAgain(c, artifacts) ==
  LET list == IF Truthy(artifacts) THEN Split(artifacts, ",")
              ELSE ArtifactRegistry(SystemType(c.client_id)) IN
  IF ~Truthy(list)
  THEN [c EXCEPT !.pc = "failed", !.err = "NoArtifactsError"]
  ELSE [c EXCEPT !.approvals = @ + 1, !.flows = @ + 1, !.pc = "poll"]

\* Collect from the artifact list to client.CreateFlow
ScheduleFlow(c, artifacts) ==
  LET system_type == SystemType(c.client_id)
      list == IF Truthy(artifacts) THEN Split(artifacts, ",")
              ELSE ArtifactRegistry(system_type) IN
  IF ~Truthy(list)
  THEN [c EXCEPT !.pc = "failed", !.err = "NoArtifactsError"]
  ELSE [c EXCEPT !.flows = @ + 1, !.pc = "poll"]

\* status.context.backtrace of a flow in state ERROR
FlowBacktrace == <<"T", "r", "a", "c", "e">>

\* faulty variant: the `break` on TERMINATED is missing
PollFlow_NoBreak(c, state) ==
  LET p == [c EXCEPT !.reads = @ + 1, !.state = state] IN
  IF state = "ERROR"
  THEN [p EXCEPT !.pc = "failed", !.err = "FlowExecutionError",
                 !.detail = FlowBacktrace]
  ELSE [p EXCEPT !.sleeps = @ + 1, !.slept = @ + CHECK_FLOW_INTERVAL_SEC]

\* faulty variant: a flow that ended in ERROR is scheduled again
PollFlow_Retry(c, state) ==
  LET p == [c EXCEPT !.reads = @ + 1, !.state = state] IN
  IF state = "ERROR"
  THEN [p EXCEPT !.pc = "schedule"]
  ELSE IF state = "TERMINATED"
  THEN [p EXCEPT !.pc = "download"]
  ELSE [p EXCEPT !.sleeps = @ + 1, !.slept = @ + CHECK_FLOW_INTERVAL_SEC]

\* faulty variant: the ERROR branch is missing, the loop ends on either state
PollFlow_DownloadOnError(c, state) ==
  LET p == [c EXCEPT !.reads = @ + 1, !.state = state] IN
  IF state \in {"ERROR", "TERMINATED"}
  THEN [p EXCEPT !.pc = "download"]
  ELSE [p EXCEPT !.sleeps = @ + 1, !.slept = @ + CHECK_FLOW_INTERVAL_SEC]

\* one round of the `while True` of Collect: a status read and its branch
PollFlow(c, state) ==
  LET p == [c EXCEPT !.reads = @ + 1, !.state = state] IN
  IF state = "ERROR"
  THEN [p EXCEPT !.pc = "failed", !.err = "FlowExecutionError",
                 !.detail = FlowBacktrace]
  ELSE IF state = "TERMINATED"
  THEN [p EXCEPT !.pc = "download"]
  ELSE [p EXCEPT !.sleeps = @ + 1, !.slept = @ + CHECK_FLOW_INTERVAL_SEC]

\* output_file_path of _DownloadFiles
ZipPath(c) == PathJoin(c.output_path, <<"F", ".", "z", "i", "p">>)

\* faulty variant: no os.path.exists check before the fetch
DownloadFiles_NoExistsCheck(c, outcome) ==
  IF outcome = "ok"
  THEN [c EXCEPT !.fetches = @ + 1, !.zip = FALSE, !.unpacked = TRUE,
                 !.downloaded = ZipPath(c), !.pc = "done"]
  ELSE IF outcome = "bad_zip"
  THEN [c EXCEPT !.fetches = @ + 1, !.zip = TRUE,
                 !.pc = "failed", !.err = "ArchiveError"]
  ELSE [c EXCEPT !.fetches = @ + 1, !.pc = "failed", !.err = "ArchiveError"]

\* _DownloadFiles and the end of Collect. `downloaded` is what _DownloadFiles
\* returned. A fetch that fails writes no file; an archive ZipFile cannot open
\* stays on disk, os.remove not being reached.
DownloadFiles(c, outcome) ==
  IF c.zip THEN [c EXCEPT !.downloaded = None, !.pc = "done"]
  ELSE IF outcome = "ok"
  THEN [c EXCEPT !.fetches = @ + 1, !.unpacked = TRUE,
                 !.downloaded = ZipPath(c), !.pc = "done"]
  ELSE IF outcome = "bad_zip"
  THEN [c EXCEPT !.fetches = @ + 1, !.zip = TRUE,
                 !.pc = "failed", !.err = "ArchiveError"]
  ELSE [c EXCEPT !.fetches = @ + 1, !.pc = "failed", !.err = "ArchiveError"]

HostUnits == DOMAIN grr

\* the time.sleep() calls of the run so far
RECURSIVE GrrSleeps(_)
GrrSleeps(n) == IF n = 0 THEN 0 ELSE GrrSleeps(n - 1) + grr[n].sleeps
MaySleep == GrrSleeps(Len(host_list)) + hunt.sleeps < MaxSleeps
Others == <<args, pc, idx, raised, artifact_collectors, collected_artifacts>>

GrrFirstProbe(n) ==
  /\ grr[n].pc = "probe"
  /\ \E outcome \in ProbeOutcomes :
       grr' = [grr EXCEPT ![n] = GetClientFirstProbe(@, outcome, approvers)]
  /\ UNCHANGED <<Others, fs, hunt>>

\* faulty variant: the wait loop runs under a lock shared by all collectors
GrrReprobe_Exclusive(n) ==
  /\ grr[n].pc = "wait"
  /\ hunt.pc # "wait"
  /\ \A m \in HostUnits \ {n} : grr[m].pc # "wait"
  /\ \E outcome \in ProbeOutcomes :
       /\ outcome = "forbidden" => MaySleep
       /\ grr' = [grr EXCEPT ![n] = GetClientReprobe(@, outcome)]
  /\ UNCHANGED <<Others, fs, hunt>>

GrrReprobe(n) ==
  /\ grr[n].pc = "wait"
  /\ \E outcome \in ProbeOutcomes :
       /\ outcome = "forbidden" => MaySleep
       /\ grr' = [grr EXCEPT ![n] = GetClientReprobe(@, outcome)]
  /\ UNCHANGED <<Others, fs, hunt>>

GrrSchedule(n) ==
  /\ grr[n].pc = "schedule"
  /\ grr' = [grr EXCEPT ![n] = ScheduleFlow(@, artifact_list)]
  /\ UNCHANGED <<Others, fs, hunt>>

GrrPoll(n) ==
  /\ grr[n].pc = "poll"
  /\ \E state \in FlowStates :
       /\ state = "RUNNING" => MaySleep
       /\ grr' = [grr EXCEPT ![n] = PollFlow(@, state)]
  /\ UNCHANGED <<Others, fs, hunt>>

GrrDownloadOf(n, outcomes) ==
  /\ grr[n].pc = "download"
  /\ \E outcome \in outcomes :
       grr' = [grr EXCEPT ![n] = DownloadFiles(@, outcome)]
  /\ UNCHANGED <<Others, fs, hunt>>

GrrDownload(n) == GrrDownloadOf(n, DownloadOutcomes)

(* --------------------------------------------- FilesystemCollector (thread) *)
\* __init__(path); the thread is started right after
FsInit(path) == [pc |-> "started", output_path |-> path, cname |-> None]

\* faulty variant: the trailing separators are not stripped
FsCollectionName_NoStrip(f) ==
  IF ~Truthy(f.cname) THEN Basename(f.output_path) ELSE f.cname

\* the collection_name property: the value of self.cname after the call
FsCollectionName(f) ==
  IF ~Truthy(f.cname) THEN Basename(RStripSlash(f.output_path)) ELSE f.cname

\* run(): Collect() returns the path
FsRun(n) ==
  /\ fs[n].pc = "started"
  /\ fs' = [fs EXCEPT ![n].pc = "done"]
  /\ UNCHANGED <<Others, grr, hunt>>

(* ------------------------------------- GrrHuntCollector (in the main thread) *)
\* archives hunt.GetFilesArchive() may deliver: per entry, filename.split(u'/')
ArchiveBase == <<"h", "u", "n", "t">>
ArchiveEntry(client_id) == <<ArchiveBase, client_id, <<"f">>>>
HuntArchives ==
  { <<>>,
    <<ArchiveEntry(ClientId3), ArchiveEntry(<<"x">>), ArchiveEntry(ClientId1),
      ArchiveEntry(ClientId3)>> }

\* __init__: mkdtemp and grr_api.Hunt(hunt_id).Get()
HuntInit == [NoHunt EXCEPT !.pc = "probe", !.output_path = HuntTmpDir]

\* Collect up to the wait loop: the exists check, the first GetFilesArchive()
\* and what follows from its outcome
HuntFirstProbe(h, outcome, approver_arg) ==
  IF h.zip THEN [h EXCEPT !.pc = "skipped"]
  ELSE LET p == [h EXCEPT !.probes = @ + 1] IN
  IF outcome = "ok"
  THEN [p EXCEPT !.fetches = @ + 1, !.zip = TRUE, !.pc = "unzip"]
  ELSE IF outcome = "forbidden"
  THEN IF ~Truthy(approver_arg)
       THEN [p EXCEPT !.denied = @ + 1, !.pc = "failed", !.err = "ApprovalError"]
       ELSE [p EXCEPT !.denied = @ + 1, !.approvals = @ + 1, !.pc = "wait"]
  ELSE [p EXCEPT !.errors = @ + 1, !.pc = "failed", !.err = "ProbeError"]

\* one round of the `while True` of Collect
HuntReprobe(h, outcome) ==
  LET p == [h EXCEPT !.probes = @ + 1] IN
  IF outcome = "ok"
  THEN [p EXCEPT !.fetches = @ + 1, !.zip = TRUE, !.pc = "unzip"]
  ELSE IF outcome = "forbidden"
  THEN [p EXCEPT !.denied = @ + 1, !.sleeps = @ + 1,
                 !.slept = @ + CHECK_APPROVAL_INTERVAL_SEC]
  ELSE [p EXCEPT !.errors = @ + 1, !.pc = "failed", !.err = "ProbeError"]

\* items[0] and filename.split(u'/')[1] exist for every entry
ArchiveReadable(archive) ==
  archive # <<>> /\ \A n \in 1..Len(archive) : Len(archive[n]) >= 2

\* the dict collection_paths the extraction loop builds
CollectionPaths(h, archive) ==
  LET ids == {archive[n][2] : n \in {m \in 1..Len(archive) :
                                       StartsWith(archive[m][2], <<"C", ".">>)}}
  IN [dir \in {PathJoin(h.output_path, id) : id \in ids} |->
        Fqdn(CHOOSE id \in ids : PathJoin(h.output_path, id) = dir)]

\* the rest of Collect: extraction and os.remove
HuntUnzip(h, archive) ==
  IF ArchiveReadable(archive) THEN [h EXCEPT !.zip = FALSE, !.pc = "done"]
  ELSE [h EXCEPT !.pc = "failed", !.err = "ArchiveError"]

(* --------------------------------------------------- CollectArtifactsHelper *)
\* the collector object a kept reference points at
Collector(ref) == IF ref.kind = "fs" THEN fs[ref.n] ELSE grr[ref.n]

\* Thread.join() returns once run() has ended, by return or by exception
Ended(ref) == Collector(ref).pc \in {"done", "failed"}

\* collector.collection_name of a kept collector
CollectionName(ref) ==
  IF ref.kind = "fs" THEN FsCollectionName(fs[ref.n]) ELSE grr[ref.n].client

\* the merge loop: collected_artifacts after updating it with the first n kept
\* collectors, in order
RECURSIVE Merged(_, _, _)
Merged(d, kept, n) ==
  IF n = 0 THEN d
  ELSE DictUpdate(Merged(d, kept, n - 1),
                  [k \in {Collector(kept[n]).output_path} |->
                     CollectionName(kept[n])])

\* the collectors the first loop appends to artifact_collectors
KeptAfterHost(kept, n) == kept

\* the collectors the second loop appends to artifact_collectors
KeptAfterPath(kept, n) == Append(kept, [kind |-> "fs", n |-> n])

\* leave the current for loop after its last element
Advance(list) ==
  IF idx < Len(list) THEN idx' = idx + 1 /\ pc' = pc
  ELSE idx' = 1 /\ pc' = AfterLoop(pc, host_list, path_list, hunt_id)

\* for host in host_list: GrrArtifactCollector(host, ...); collector.start()
\* `results` are the answers the search may get. A constructor that raises
\* leaves no collector behind: only the search it made is on record.
StartHostFrom(results) ==
  /\ pc = "hosts"
  /\ \E answer \in results :
       LET search_result == SearchAnswers[answer]
           ids == GetClientId(host_list[idx], search_result)
           log == SearchLog(host_list[idx], answer)
       IN
       IF ids = {}
       THEN /\ pc' = "raised"
            /\ raised' = "ResolutionError"
            /\ grr' = [grr EXCEPT ![idx] =
                         [@ EXCEPT !.searches = Len(log), !.search_results = log]]
            /\ UNCHANGED <<idx, artifact_collectors>>
       ELSE /\ \E client_id \in ids :
                 grr' = [grr EXCEPT ![idx] =
                           [GrrInit(idx, host_list[idx], client_id)
                              EXCEPT !.search_results = log]]
            /\ artifact_collectors' = KeptAfterHost(artifact_collectors, idx)
            /\ Advance(host_list)
            /\ UNCHANGED raised
  /\ UNCHANGED <<args, collected_artifacts, fs, hunt>>

StartHost == StartHostFrom(SearchResults)

\* for path in path_list: FilesystemCollector(path); start(); append
StartPath ==
  /\ pc = "paths"
  /\ fs' = [fs EXCEPT ![idx] = FsInit(path_list[idx])]
  /\ artifact_collectors' = KeptAfterPath(artifact_collectors, idx)
  /\ Advance(path_list)
  /\ UNCHANGED <<args, raised, collected_artifacts, grr, hunt>>

\* if hunt_id: collector = GrrHuntCollector(hunt_id, ...)
HuntConstruct ==
  /\ pc = "hunt" /\ hunt.pc = "new"
  /\ hunt' = HuntInit
  /\ UNCHANGED <<Others, grr, fs>>

\* an exception of collector.Collect() leaves CollectArtifactsHelper, and so
\* does update(None) after Collect() skipped
HuntStep(h) ==
  /\ hunt' = h
  /\ IF h.pc = "failed" THEN pc' = "raised" /\ raised' = h.err
     ELSE IF h.pc = "skipped" THEN pc' = "raised" /\ raised' = "TypeError"
     ELSE UNCHANGED <<pc, raised>>

HuntCollectProbe ==
  /\ pc = "hunt" /\ hunt.pc = "probe"
  /\ \E outcome \in ProbeOutcomes : HuntStep(HuntFirstProbe(hunt, outcome, approvers))
  /\ UNCHANGED <<args, idx, artifact_collectors, collected_artifacts, grr, fs>>

HuntCollectWait ==
  /\ pc = "hunt" /\ hunt.pc = "wait"
  /\ \E outcome \in ProbeOutcomes :
       /\ outcome = "forbidden" => MaySleep
       /\ HuntStep(HuntReprobe(hunt, outcome))
  /\ UNCHANGED <<args, idx, artifact_collectors, collected_artifacts, grr, fs>>

\* collected_artifacts.update(collector.Collect())
HuntCollectUnzip ==
  /\ pc = "hunt" /\ hunt.pc = "unzip"
  /\ \E archive \in HuntArchives :
       LET h == HuntUnzip(hunt, archive) IN
       /\ hunt' = h
       /\ IF h.pc = "failed"
          THEN pc' = "raised" /\ raised' = h.err /\ UNCHANGED <<idx, collected_artifacts>>
          ELSE /\ collected_artifacts' =
                    DictUpdate(collected_artifacts, CollectionPaths(hunt, archive))
               /\ pc' = "join" /\ idx' = 1
               /\ UNCHANGED raised
  /\ UNCHANGED <<args, artifact_collectors, grr, fs>>

\* for collector in artifact_collectors: collector.join()
Join ==
  /\ pc = "join"
  /\ idx <= Len(artifact_collectors)
  /\ Ended(artifact_collectors[idx])
  /\ idx' = idx + 1
  /\ UNCHANGED <<args, pc, raised, artifact_collectors, collected_artifacts, grr, fs, hunt>>

\* the merge loop and the return
MergeAndReturn ==
  /\ pc = "join"
  /\ idx > Len(artifact_collectors)
  /\ IF \E n \in 1..Len(artifact_collectors) :
          /\ artifact_collectors[n].kind = "grr"
          /\ grr[artifact_collectors[n].n].client = None
     THEN /\ pc' = "raised" /\ raised' = "AttributeError"
          /\ UNCHANGED <<collected_artifacts, fs>>
     ELSE /\ collected_artifacts' =
               Merged(collected_artifacts, artifact_collectors, Len(artifact_collectors))
          /\ fs' = [n \in DOMAIN fs |->
                      IF \E m \in 1..Len(artifact_collectors) :
                           artifact_collectors[m] = [kind |-> "fs", n |-> n]
                      THEN [fs[n] EXCEPT !.cname = FsCollectionName(fs[n])]
                      ELSE fs[n]]
          /\ pc' = "returned"
          /\ UNCHANGED raised
  /\ UNCHANGED <<args, idx, artifact_collectors, grr, hunt>>

Next ==
  \/ StartHost
  \/ StartPath
  \/ HuntConstruct
  \/ HuntCollectProbe
  \/ HuntCollectWait
  \/ HuntCollectUnzip
  \/ Join
  \/ MergeAndReturn
  \/ \E n \in DOMAIN fs : FsRun(n)
  \/ \E n \in HostUnits : GrrFirstProbe(n)
  \/ \E n \in HostUnits : GrrReprobe(n)
  \/ \E n \in HostUnits : GrrSchedule(n)
  \/ \E n \in HostUnits : GrrPoll(n)
  \/ \E n \in HostUnits : GrrDownload(n)

Spec == Init /\ [][Next]_vars

(* The same runs under fair scheduling and a remote service that answers. *)
\* a step of CollectArtifactsHelper's own thread
HelperStep ==
  \/ StartHost \/ StartPath \/ HuntConstruct \/ HuntCollectProbe
  \/ HuntCollectWait \/ HuntCollectUnzip \/ Join \/ MergeAndReturn

\* a step of the thread of host unit n
HostStep(n) ==
  /\ n \in HostUnits
  /\ \/ GrrFirstProbe(n) \/ GrrReprobe(n) \/ GrrSchedule(n)
     \/ GrrPoll(n) \/ GrrDownload(n)

\* Every thread that can run does run (the interpreter switches threads, and
\* time.sleep returns). An approval that was requested is granted in the end:
\* a probe of a wait loop that keeps being made is not denied for ever. A flow
\* that was scheduled ends: a status that keeps being read is not RUNNING for
\* ever.
Fairness ==
  /\ WF_vars(HelperStep)
  /\ \A n \in 1..MaxHosts : WF_vars(HostStep(n))
  /\ \A n \in 1..MaxPaths : WF_vars(n \in DOMAIN fs /\ FsRun(n))
  /\ SF_vars(HuntCollectWait /\ hunt'.pc # "wait")
  /\ \A n \in 1..MaxHosts :
       /\ SF_vars(n \in HostUnits /\ GrrReprobe(n) /\ grr'[n].pc # "wait")
       /\ SF_vars(n \in HostUnits /\ GrrPoll(n) /\ grr'[n].pc # "poll")

SpecFair == Spec /\ Fairness

(* A run with local paths only: no host, no hunt. *)
InitLocal == InitWith({<<>>}, SeqsUpTo(PathChoices, MaxLocalPaths), {None})

NextLocal ==
  \/ StartPath
  \/ Join
  \/ MergeAndReturn
  \/ \E n \in DOMAIN fs : FsRun(n)

SpecLocal == InitLocal /\ [][NextLocal]_vars

(* The resolution of one host, over more hosts and more search answers. *)
CanonLower == <<"c", ".">> \o Zeros15 \o <<"f">>
CanonUpper == <<"C", ".">> \o Zeros15 \o <<"F">>
\* host strings: search terms, canonical ids, and strings close to one
ResolveHosts ==
  { HostWeb, <<"W", "E", "B">>, <<"d", "b">>, <<"z">>, <<>>,
    ClientId1, CanonLower, CanonUpper,
    <<"c", ".">> \o Zeros15,
    <<"c", ".">> \o Zeros15 \o <<"g">>,
    <<"c", ".">> \o Zeros15 \o <<"0", "0">>,
    <<"x">> \o CanonLower,
    CanonLower \o <<"\n">> }

\* every answer of SearchAnswers
ResolveResults == 1..Len(SearchAnswers)

InitResolve == InitWith({<<h>> : h \in ResolveHosts}, {<<>>}, {None})

ResolveHost == StartHostFrom(ResolveResults)

NextResolve == ResolveHost

SpecResolve == InitResolve /\ [][NextResolve]_vars

(* Retrieval called again on the same collector: one GrrArtifactCollector and
   one GrrHuntCollector in the hands of a caller other than
   CollectArtifactsHelper, which calls _DownloadFiles and Collect repeatedly. *)
InitRetrieve ==
  /\ host_list = <<ClientId1>>
  /\ path_list = <<>>
  /\ hunt_id = HuntId
  /\ artifact_list \in ArtifactChoices
  /\ approvers \in ApproverChoices
  /\ pc = "direct"
  /\ idx = 1
  /\ raised = "none"
  /\ artifact_collectors = <<>>
  /\ collected_artifacts = EmptyDict
  /\ grr = [n \in {1} |-> GrrInit(1, ClientId1, ClientId1)]
  /\ fs = [n \in {} |-> NoFs]
  /\ hunt = HuntInit

RetrieveDownload(n) == GrrDownloadOf(n, RetrieveOutcomes)

\* _DownloadFiles(flow_id) is called once more after it returned or raised
DownloadAgain(n) ==
  /\ pc = "direct"
  /\ \/ grr[n].pc = "done"
     \/ grr[n].pc = "failed" /\ grr[n].err = "ArchiveError"
  /\ grr[n].zip \/ grr[n].fetches < MaxFetches
  /\ grr' = [grr EXCEPT ![n] =
               [@ EXCEPT !.pc = "download", !.err = "none", !.downloaded = None]]
  /\ UNCHANGED <<Others, fs, hunt>>

\* one step of GrrHuntCollector.Collect() in the caller's thread
DirectHuntCollect ==
  /\ pc = "direct"
  /\ \/ /\ hunt.pc = "probe"
        /\ \E outcome \in ProbeOutcomes :
             hunt' = HuntFirstProbe(hunt, outcome, approvers)
     \/ /\ hunt.pc = "wait"
        /\ \E outcome \in ProbeOutcomes :
             /\ outcome = "forbidden" => MaySleep
             /\ hunt' = HuntReprobe(hunt, outcome)
     \/ /\ hunt.pc = "unzip"
        /\ \E archive \in HuntArchives : hunt' = HuntUnzip(hunt, archive)
  /\ UNCHANGED <<Others, grr, fs>>

\* Collect() is called once more after it returned or the archive failed
HuntCollectAgain ==
  /\ pc = "direct"
  /\ \/ hunt.pc \in {"done", "skipped"}
     \/ hunt.pc = "failed" /\ hunt.err = "ArchiveError"
  /\ hunt.zip \/ hunt.fetches < MaxFetches
  /\ hunt' = [hunt EXCEPT !.pc = "probe", !.err = "none"]
  /\ UNCHANGED <<Others, grr, fs>>

NextRetrieve ==
  \/ \E n \in HostUnits : GrrFirstProbe(n)
  \/ \E n \in HostUnits : GrrReprobe(n)
  \/ \E n \in HostUnits : GrrSchedule(n)
  \/ \E n \in HostUnits : GrrPoll(n)
  \/ \E n \in HostUnits : RetrieveDownload(n)
  \/ \E n \in HostUnits : DownloadAgain(n)
  \/ DirectHuntCollect
  \/ HuntCollectAgain

SpecRetrieve == InitRetrieve /\ [][NextRetrieve]_vars

(* ------------------------------------------------------------------ claims *)
HostEnded(n) == grr[n].pc \in {"done", "failed"}
HostStarted(n) == grr[n].pc # "new"
\* the constructor of host n's collector ran: it returned or it raised
ResolutionFailed(n) == pc = "raised" /\ raised = "ResolutionError" /\ idx = n
Resolved(n) == HostStarted(n) \/ ResolutionFailed(n)
PathEnded(n) == fs[n].pc = "done"
PathStarted(n) == fs[n].pc # "new"
HelperOver == pc \in {"returned", "raised"}

\* C1: the merged result is returned only after every started unit, host
\* thread or local-path thread, has finished or failed.
C1_ReturnAfterAllUnitsEnded ==
  pc = "returned" =>
    /\ \A n \in DOMAIN grr : HostStarted(n) => HostEnded(n)
    /\ \A n \in DOMAIN fs : PathStarted(n) => PathEnded(n)

\* C2: the returned result maps the output path of every unit that succeeded
\* to that unit's label, host units included.
C2_SucceededUnitsInResult ==
  pc = "returned" =>
    /\ \A n \in DOMAIN grr :
         grr[n].pc = "done" =>
           /\ grr[n].output_path \in DOMAIN collected_artifacts
           /\ collected_artifacts[grr[n].output_path] = grr[n].client
    /\ \A n \in DOMAIN fs :
         fs[n].pc = "done" =>
           /\ fs[n].output_path \in DOMAIN collected_artifacts
           /\ collected_artifacts[fs[n].output_path] = fs[n].cname

\* C3: a fatal failure of one target leaves the others alone: once
\* CollectArtifactsHelper is over, every other target's unit was started, and
\* every unit that ran to completion has its entry in the returned result.
C3_FailuresIsolated ==
  HelperOver =>
    /\ \A n \in DOMAIN grr :
         ~(raised = "ResolutionError" /\ idx = n) => HostStarted(n)
    /\ \A n \in DOMAIN fs :
         /\ PathStarted(n)
         /\ PathEnded(n) =>
              /\ pc = "returned"
              /\ fs[n].output_path \in DOMAIN collected_artifacts

\* C4: when CollectArtifactsHelper is over, its outcome records the failure of
\* every unit whose Collect raised.
C4_FailuresSurfaced ==
  HelperOver =>
    \A n \in DOMAIN grr : grr[n].pc = "failed" => raised = grr[n].err

\* the final non-empty segment of a path, empty when it has none
FinalSegment(path) ==
  LET segs == Split(path, "/")
      full == {n \in 1..Len(segs) : segs[n] # <<>>}
  IN IF full = {} THEN <<>>
     ELSE segs[CHOOSE n \in full : \A m \in full : m <= n]

\* C5: with no host and no hunt, the result has exactly one entry per distinct
\* path of path_list, keyed by the path and labelled with its final non-empty
\* segment.
C5_LocalPathsResult ==
  (pc = "returned" /\ host_list = <<>> /\ ~Truthy(hunt_id)) =>
    /\ DOMAIN collected_artifacts = {path_list[n] : n \in 1..Len(path_list)}
    /\ \A path \in DOMAIN collected_artifacts :
         collected_artifacts[path] = FinalSegment(path)

C5_Witness ==
  /\ pc = "returned"
  /\ Len(path_list) = 2
  /\ path_list[1] = <<"a", "/", "/">>
  /\ path_list[2] = <<"/", "a", "/", "b", "/">>
  /\ Cardinality(DOMAIN collected_artifacts) = 2

\* a gate that was denied with no approvers to ask: failed on the spot
GateFailedAtOnce(c) ==
  /\ c.pc = "failed"
  /\ c.err = "ApprovalError"
  /\ c.approvals = 0
  /\ c.probes = 1
  /\ c.fetches = 0

\* C6: a unit whose first probe is denied while no approvers were supplied
\* fails at once: no approval request, no second probe, no flow, no fetch.
C6_NoApproversFailsAtOnce ==
  ~Truthy(approvers) =>
    /\ \A n \in DOMAIN grr :
         grr[n].denied > 0 =>
           GateFailedAtOnce(grr[n]) /\ grr[n].flows = 0 /\ grr[n].reads = 0
    /\ hunt.denied > 0 => GateFailedAtOnce(hunt) /\ pc = "raised"

C6_Witness ==
  /\ ~Truthy(approvers)
  /\ \E n \in DOMAIN grr : grr[n].denied = 1 /\ grr[n].pc = "failed"
  /\ hunt.denied = 1 /\ pc = "raised"

\* what a gate in or past its wait loop has done: one request, one probe per
\* denial while it waits, one sleep of the fixed interval per denied re-probe
GateWaitsProperly(c, waiting) ==
  /\ c.approvals <= 1
  /\ c.approvals = 1 <=> (c.denied > 0 /\ Truthy(approvers))
  /\ waiting =>
       /\ c.approvals = 1
       /\ c.probes = c.denied
       /\ c.slept = CHECK_APPROVAL_INTERVAL_SEC * (c.denied - 1)

\* C7: a unit issues at most one approval request, however often its probe is
\* denied; after it, the gate only re-probes at the fixed interval.
C7_OneApprovalRequest ==
  /\ \A n \in DOMAIN grr : GateWaitsProperly(grr[n], grr[n].pc = "wait")
  /\ GateWaitsProperly(hunt, hunt.pc = "wait")

C7_Witness ==
  \E n \in DOMAIN grr :
    /\ grr[n].approvals = 1
    /\ grr[n].denied = 3
    /\ grr[n].pc = "schedule"

TerminalStates == {"TERMINATED", "ERROR"}

\* C8: no status read follows a read that observed TERMINATED or ERROR, and a
\* unit that observed any other state has slept the fixed interval and is
\* about to read again.
C8_PollingStopsAtTerminal ==
  [][\A n \in DOMAIN grr :
       /\ grr[n].state \in TerminalStates => grr'[n].reads = grr[n].reads
       /\ grr'[n].reads # grr[n].reads =>
            /\ grr'[n].reads = grr[n].reads + 1
            /\ IF grr'[n].state \in TerminalStates
               THEN grr'[n].pc # "poll" /\ grr'[n].slept = grr[n].slept
               ELSE /\ grr'[n].pc = "poll"
                    /\ grr'[n].slept = grr[n].slept + CHECK_FLOW_INTERVAL_SEC]_vars

C8_Witness ==
  \E n \in DOMAIN grr :
    /\ grr[n].state = "TERMINATED"
    /\ grr[n].reads = 3
    /\ grr[n].pc = "done"

\* a host unit that got as far as client.CreateFlow
Scheduled(c) ==
  \/ c.pc \in {"poll", "download", "done"}
  \/ c.pc = "failed" /\ c.err \in {"FlowExecutionError", "ArchiveError"}

\* C9 as stated: every host unit that ended has exactly one flow.
C9_ExactlyOneFlowPerHost ==
  \A n \in DOMAIN grr : HostEnded(n) => grr[n].flows = 1

\* C9, amended: a host unit has at most one flow, exactly one once it got past
\* the approval gate and the artifact list and none before; a step of a
\* FilesystemCollector or of the hunt collector schedules, polls and downloads
\* no flow.
C9_AtMostOneFlowPerHost ==
  /\ [](\A n \in DOMAIN grr :
          /\ grr[n].flows <= 1
          /\ grr[n].flows = 1 <=> Scheduled(grr[n]))
  /\ [][(fs' # fs \/ hunt' # hunt) => grr' = grr]_vars

C9_Witness ==
  /\ pc = "returned"
  /\ hunt.pc = "done"
  /\ \E n \in DOMAIN fs : fs[n].pc = "done"
  /\ \E n \in DOMAIN grr : grr[n].pc = "done" /\ grr[n].flows = 1

\* absent, pending, granted as a unit's record shows them
ApprovalRank(c, granted) ==
  IF granted THEN 2 ELSE IF c.approvals > 0 THEN 1 ELSE 0

HostRank(c) == ApprovalRank(c, c.client # None)
HuntRank(h) == ApprovalRank(h, h.fetches > 0)

\* C10: a unit's approval status never moves backwards, and once its probe has
\* succeeded the unit neither probes nor requests an approval again.
C10_ApprovalOnlyAdvances ==
  [][/\ \A n \in DOMAIN grr :
          /\ HostRank(grr'[n]) >= HostRank(grr[n])
          /\ HostRank(grr[n]) = 2 =>
               /\ grr'[n].approvals = grr[n].approvals
               /\ grr'[n].probes = grr[n].probes
     /\ HuntRank(hunt') >= HuntRank(hunt)
     /\ HuntRank(hunt) = 2 =>
          /\ hunt'.approvals = hunt.approvals
          /\ hunt'.probes = hunt.probes]_vars

C10_Witness ==
  /\ \E n \in DOMAIN grr :
       grr[n].approvals = 1 /\ grr[n].client # None /\ grr[n].pc = "done"
  /\ hunt.approvals = 1 /\ hunt.pc = "done"


\* the canonical pattern: 'c.' and exactly 16 hexadecimal digits, in either case
Canonical(host) ==
  /\ Len(host) = 18
  /\ host[1] \in {"c", "C"}
  /\ host[2] = "."
  /\ \A n \in 3..18 :
       host[n] \in {"0", "1", "2", "3", "4", "5", "6", "7", "8", "9",
                    "a", "b", "c", "d", "e", "f", "A", "B", "C", "D", "E", "F"}

\* C11: a host that matches the canonical pattern is resolved without a search
\* call and to itself, unchanged; its resolution never fails.
C11_CanonicalIdReturnedUnsearched ==
  \A n \in HostUnits :
    Resolved(n) /\ Canonical(host_list[n]) =>
      /\ HostStarted(n)
      /\ grr[n].searches = 0
      /\ grr[n].search_results = <<>>
      /\ grr[n].client_id = host_list[n]

C11_Witness ==
  \E n \in HostUnits :
    /\ host_list[n] = CanonUpper
    /\ HostStarted(n)
    /\ grr[n].client_id = CanonUpper

\* the positions of the search answer whose fqdn contains the host, whatever
\* the case of either
Matches(host, search_result) ==
  {k \in 1..Len(search_result) :
     Contains(Lower(host), Lower(search_result[k].fqdn))}

MatchSet(n) ==
  IF grr[n].search_results = <<>> THEN {}
  ELSE Matches(host_list[n], SearchAnswers[grr[n].search_results[1]])

\* C13: the resolution of a host that is not canonical fails with the
\* resolution error exactly when no entry of a search answer matches, and
\* otherwise returns the client id of a matching entry.
C13_FailsIffNoMatch ==
  \A n \in HostUnits :
    Resolved(n) /\ ~Canonical(host_list[n]) =>
      /\ ResolutionFailed(n) <=> MatchSet(n) = {}
      /\ HostStarted(n) =>
           \E k \in MatchSet(n) :
             SearchAnswers[grr[n].search_results[1]][k].client_id =
               grr[n].client_id

\* C14: a retrieval entered while its zip file is already in the destination
\* fetches nothing, extracts nothing, removes nothing and returns None:
\* _DownloadFiles changes no field of the collector but its return value, and
\* GrrHuntCollector.Collect ends skipped, the hunt collector otherwise as it was.
C14_PresentFileSkipsRetrieval ==
  [][/\ \A n \in HostUnits :
         grr[n].pc = "download" /\ grr[n].zip /\ grr'[n] # grr[n] =>
           /\ grr'[n] = [grr[n] EXCEPT !.pc = "done"]
           /\ grr'[n].downloaded = None
     /\ hunt.pc = "probe" /\ hunt.zip /\ hunt' # hunt =>
           /\ hunt' = [hunt EXCEPT !.pc = "skipped"]
           /\ collected_artifacts' = collected_artifacts]_vars

\* both collectors skipped a retrieval, after one fetch each
C14_Witness ==
  /\ \E n \in HostUnits :
       /\ grr[n].pc = "done" /\ grr[n].zip /\ ~grr[n].unpacked
       /\ grr[n].downloaded = None /\ grr[n].fetches = 1
  /\ hunt.pc = "skipped" /\ hunt.zip /\ hunt.fetches = 1

\* the probes of a collector that returned without any exception
ProbesPassed(c) == c.probes - c.denied - c.errors

\* C15: in every host unit a flow exists only once a ListFlows() probe of
\* that unit succeeded, so never while the approval is absent or waited for;
\* a flow status is read only once the flow exists, and the archive is fetched
\* only once the flow exists and its status was read.
C15_GateBeforeFlow ==
  \A n \in HostUnits :
    LET c == grr[n] IN
    /\ c.flows > 0 => ProbesPassed(c) = 1
    /\ c.pc \in {"new", "probe", "wait"} => c.flows = 0
    /\ c.approvals > 0 /\ c.probes = c.denied => c.flows = 0
    /\ c.reads > 0 => c.flows > 0
    /\ c.fetches > 0 => c.flows > 0 /\ c.reads > 0

\* a unit that waited for its approval, then scheduled, polled and downloaded
C15_Witness ==
  \E n \in HostUnits :
    /\ grr[n].denied >= 2 /\ grr[n].approvals = 1
    /\ grr[n].flows = 1 /\ grr[n].reads >= 1 /\ grr[n].fetches = 1
    /\ grr[n].pc = "done"

\* C16: a host unit that read the state ERROR has failed with the flow
\* execution error and the remote backtrace, has fetched no archive and has
\* scheduled no second flow, and the step that read ERROR changed nothing
\* outside that unit; an archive is fetched only after TERMINATED was read.
C16_FlowErrorEndsUnit ==
  /\ [](\A n \in HostUnits :
         /\ grr[n].state = "ERROR" =>
              /\ grr[n].pc = "failed" /\ grr[n].err = "FlowExecutionError"
              /\ grr[n].detail = FlowBacktrace
              /\ grr[n].fetches = 0 /\ grr[n].flows = 1
              /\ ~grr[n].zip /\ ~grr[n].unpacked
         /\ grr[n].fetches > 0 => grr[n].state = "TERMINATED")
  /\ [][\A n \in HostUnits :
          grr'[n].state = "ERROR" /\ grr[n].state # "ERROR" =>
            /\ \A m \in HostUnits \ {n} : grr'[m] = grr[m]
            /\ UNCHANGED <<pc, idx, raised, artifact_collectors,
                           collected_artifacts, fs, hunt>>]_vars

\* a unit failed on ERROR while the helper went on and returned
C16_Witness ==
  /\ \E n \in HostUnits :
       grr[n].state = "ERROR" /\ grr[n].pc = "failed" /\ grr[n].reads >= 2
  /\ pc = "returned"
  /\ \E m \in DOMAIN fs : fs[m].pc = "done"

\* C17: the hunt collector exists only once every host unit and every path
\* unit was started; its Collect runs in CollectArtifactsHelper itself, which
\* does nothing else meanwhile; and the join loop is entered, with a hunt id
\* given, only after that Collect returned.
C17_StartAllThenHuntThenJoin ==
  /\ [](/\ pc = "hunt" \/ hunt.pc # "new" =>
            /\ \A n \in HostUnits : HostStarted(n)
            /\ \A n \in DOMAIN fs : PathStarted(n)
        /\ pc = "hunt" => idx = 1 /\ Truthy(hunt_id)
        /\ pc \in {"join", "returned"} /\ Truthy(hunt_id) => hunt.pc = "done"
        /\ ~Truthy(hunt_id) => hunt.pc = "new")
  /\ [][/\ hunt' # hunt => pc = "hunt" /\ pc' \in {"hunt", "join", "raised"}
        /\ pc = "hunt" /\ pc' # "hunt" =>
             hunt' # hunt /\ hunt'.pc \in {"done", "failed"}
        /\ pc = "hunt" =>
             UNCHANGED <<artifact_collectors, idx>>]_vars

\* the join loop reached after a hunt collection that had to wait, with a
\* host unit and a path unit started before
C17_Witness ==
  /\ pc = "join"
  /\ hunt.pc = "done" /\ hunt.denied >= 1
  /\ \E n \in HostUnits : HostStarted(n)
  /\ \E n \in DOMAIN fs : PathStarted(n)

\* a step of host unit n's thread that leaves the statement it is at
HostAdvance(n) ==
  /\ \/ GrrFirstProbe(n) \/ GrrReprobe(n) \/ GrrSchedule(n)
     \/ GrrPoll(n) \/ GrrDownload(n)
  /\ grr'[n].pc # grr[n].pc

\* a step of the hunt collection that leaves the statement it is at
HuntAdvance ==
  /\ HuntConstruct \/ HuntCollectProbe \/ HuntCollectWait \/ HuntCollectUnzip
  /\ hunt'.pc # hunt.pc

\* C18: whatever the other units are doing, waiting ones included, every
\* started unit that has not ended can take a step of its own that moves it
\* on (a host thread, a path thread, the hunt collection in the helper), and
\* a step of one thread changes no other unit and nothing of the helper.
C18_WaitBlocksOnlyItself ==
  /\ [](/\ \A n \in HostUnits :
            HostStarted(n) /\ ~HostEnded(n) => ENABLED HostAdvance(n)
        /\ \A n \in DOMAIN fs :
            PathStarted(n) /\ ~PathEnded(n) => ENABLED FsRun(n)
        /\ pc = "hunt" => ENABLED HuntAdvance)
  /\ [][/\ \A n \in HostUnits :
            HostStarted(n) /\ grr'[n] # grr[n] =>
              /\ \A m \in HostUnits \ {n} : grr'[m] = grr[m]
              /\ UNCHANGED <<pc, idx, raised, artifact_collectors,
                             collected_artifacts, fs, hunt>>
        /\ \A n \in DOMAIN fs :
            PathStarted(n) /\ fs'[n].pc # fs[n].pc =>
              /\ \A m \in DOMAIN fs \ {n} : fs'[m] = fs[m]
              /\ UNCHANGED <<pc, idx, raised, artifact_collectors,
                             collected_artifacts, grr, hunt>>
        /\ hunt' # hunt => UNCHANGED <<grr, fs>>]_vars

\* the hunt collection is in its second sleep or later while a host unit
\* that had to wait itself ran to its end, and a path unit too
C18_Witness ==
  /\ pc = "hunt" /\ hunt.pc = "wait" /\ hunt.denied >= 2
  /\ \E n \in HostUnits :
       grr[n].pc = "done" /\ grr[n].denied >= 1
  /\ \E n \in DOMAIN fs : fs[n].pc = "done"

\* what holds of a collector one of whose probes raised something other than
\* AccessForbiddenError: that probe was its last, nothing was requested and
\* nothing slept on after it, and the collector ended in that failure
ProbeFailureLeftGate(c) ==
  /\ c.errors = 1
  /\ c.pc = "failed" /\ c.err = "ProbeError"
  /\ c.probes = c.denied + 1
  /\ c.approvals = (IF c.denied > 0 THEN 1 ELSE 0)
  /\ c.sleeps = (IF c.denied > 0 THEN c.denied - 1 ELSE 0)

\* C19: a probe that fails with anything but access-denied, the first one or
\* a later one of the wait loop, ends the collector at once with that failure:
\* no approval request and no sleep follow it, the host unit gets no client
\* and no flow, the hunt collector no archive, and the helper is left with
\* the hunt collector's failure.
C19_OtherProbeFailurePropagates ==
  /\ \A n \in HostUnits :
       grr[n].errors > 0 =>
         /\ ProbeFailureLeftGate(grr[n])
         /\ grr[n].client = None /\ grr[n].flows = 0
  /\ hunt.errors > 0 =>
       /\ ProbeFailureLeftGate(hunt)
       /\ hunt.fetches = 0 /\ ~hunt.zip
       /\ pc = "raised" /\ raised = "ProbeError"

\* a host unit whose second probe in the wait loop failed, and a hunt
\* collection whose first probe failed
C19_Witness ==
  /\ \E n \in HostUnits : grr[n].errors = 1 /\ grr[n].denied = 2
  /\ hunt.errors = 1 /\ hunt.denied = 0

\* every unit asked for has run to its end
AllUnitsEnded ==
  /\ \A n \in HostUnits : HostEnded(n)
  /\ \A n \in DOMAIN fs : PathEnded(n)
  /\ Truthy(hunt_id) => hunt.pc \in {"done", "failed", "skipped"}

\* C20: under fair scheduling, with approvals granted and flows ending in
\* the end, every unit eventually ends and CollectArtifactsHelper eventually
\* returns its result.
C20_UnitsEndAndHelperReturns == <>(pc = "returned" /\ AllUnitsEnded)

\* C20, what does hold: CollectArtifactsHelper eventually returns or raises
\* and every unit it started eventually ends; and a thread repeats a
\* statement only on a denied probe in a wait loop or on a flow still running.
C20_HelperAndStartedUnitsEnd ==
  /\ <>(/\ HelperOver
        /\ \A n \in HostUnits : HostStarted(n) => HostEnded(n)
        /\ \A n \in DOMAIN fs : PathStarted(n) => PathEnded(n))
  /\ [][/\ \A n \in HostUnits :
            HostStarted(n) /\ grr'[n] # grr[n] /\ grr'[n].pc = grr[n].pc =>
              \/ grr[n].pc = "wait" /\ grr'[n].denied = grr[n].denied + 1
              \/ grr[n].pc = "poll" /\ grr'[n].state = "RUNNING"
        /\ hunt' # hunt /\ hunt'.pc = hunt.pc =>
              hunt.pc = "wait" /\ hunt'.denied = hunt.denied + 1]_vars
====
